---------------------------- MODULE Spec2Model ----------------------------
(***************************************************************************)
(* Maestro: transport (src/transport.ts), scheduler (src/scheduler.ts) and *)
(* transition manager (src/transition.ts) as one state machine.            *)
(*                                                                         *)
(* JavaScript numbers are modelled as exact fractions <<n, d>> in lowest   *)
(* terms with d > 0; the IEEE specials are <<1, 0>> (Infinity),            *)
(* <<-1, 0>> (-Infinity) and <<0, 0>> (NaN).  Tick counts, tempi and ppq   *)
(* are integers.  Every pending timer carries the milliseconds left until   *)
(* it is due (`after`); it fires once none are left, timers due at the     *)
(* same time fire in the order of their creation.                          *)
(***************************************************************************)
EXTENDS Integers, Sequences, FiniteSets, TLC

(* ------------------------------ bounds -------------------------------- *)
MaxTick == 1920
MaxTransitions == 2
MaxFades == 2
MaxRewind == 480
MaxAdvances == 3

(* -------------------------- program constants ------------------------- *)
LAYER_FADE_INTERVAL == 16
DefaultPpq == 480
InitialBpm == 120
MsPerMinute == 60000
MaxVolume == 127
BeatsPerBar == 4

(* ------------------------------ inputs -------------------------------- *)
TickSteps == {-480, 480, 1760}
FineSteps == {-1, 1, 1919, 1920}
TempoSet == {0, 100, 120}
DurationSet == {-40, 0, 40}
Channels == {0, 1}

CueA ==
  [id |-> "intro_theme", key |-> 0, tempo |-> 120, entryPoints |-> <<0, 1920>>,
   layers |-> << [id |-> "piano", channel |-> 0, volume |-> 100, muted |-> FALSE],
                 [id |-> "strings", channel |-> 1, volume |-> 80, muted |-> FALSE] >>]
CueB ==
  [id |-> "combat_theme", key |-> 2, tempo |-> 100, entryPoints |-> <<0, 960>>,
   layers |-> << [id |-> "brass", channel |-> 0, volume |-> 120, muted |-> FALSE],
                 [id |-> "drums", channel |-> 1, volume |-> 110, muted |-> FALSE] >>]
CueC ==
  [id |-> "pad_theme", key |-> 5, tempo |-> 100, entryPoints |-> <<0>>,
   layers |-> << [id |-> "pad", channel |-> 1, volume |-> 64, muted |-> TRUE] >>]
Cues == {CueA, CueB, CueC}
TransitionCues == {CueA, CueB}
SchedulerCues == {CueA, CueC}

(* ------------------------- number arithmetic -------------------------- *)
Abs(x) == IF x < 0 THEN -x ELSE x
Sign(x) == IF x < 0 THEN -1 ELSE IF x > 0 THEN 1 ELSE 0

RECURSIVE GCD(_, _)
GCD(a, b) == IF b = 0 THEN a ELSE GCD(b, a % b)

Norm(n, d) ==
  IF d = 0 THEN <<Sign(n), 0>>
  ELSE LET g == GCD(Abs(n), Abs(d))
           s == IF d < 0 THEN -1 ELSE 1
       IN <<(s * n) \div g, (s * d) \div g>>

Num(i) == <<i, 1>>
NaN == <<0, 0>>
IsNaN(x) == x = NaN
IsFinite(x) == x[2] # 0

\* x < y for numbers that are not NaN
NLess(x, y) ==
  IF IsFinite(x) /\ IsFinite(y) THEN x[1] * y[2] < y[1] * x[2]
  ELSE IF IsFinite(x) THEN y[1] > 0
  ELSE IF IsFinite(y) THEN x[1] < 0
  ELSE x[1] < y[1]

NAdd(x, y) ==
  IF IsNaN(x) \/ IsNaN(y) THEN NaN
  ELSE IF IsFinite(x) /\ IsFinite(y) THEN Norm(x[1] * y[2] + y[1] * x[2], x[2] * y[2])
  ELSE IF IsFinite(x) THEN y
  ELSE IF IsFinite(y) THEN x
  ELSE IF x = y THEN x ELSE NaN

NNeg(x) == <<-x[1], x[2]>>
NSub(x, y) == NAdd(x, NNeg(y))

NMul(x, y) ==
  IF IsNaN(x) \/ IsNaN(y) THEN NaN
  ELSE IF IsFinite(x) /\ IsFinite(y) THEN Norm(x[1] * y[1], x[2] * y[2])
  ELSE <<Sign(x[1]) * Sign(y[1]), 0>>

NDiv(x, y) ==
  IF IsNaN(x) \/ IsNaN(y) THEN NaN
  ELSE IF IsFinite(x) /\ IsFinite(y) THEN Norm(x[1] * y[2], x[2] * y[1])
  ELSE IF IsFinite(x) THEN Num(0)
  ELSE IF IsFinite(y) THEN <<Sign(x[1]) * (IF y[1] < 0 THEN -1 ELSE 1), 0>>
  ELSE NaN

\* Math.min / Math.max: NaN if either argument is NaN
MathMin(x, y) == IF IsNaN(x) \/ IsNaN(y) THEN NaN ELSE IF NLess(y, x) THEN y ELSE x
MathMax(x, y) == IF IsNaN(x) \/ IsNaN(y) THEN NaN ELSE IF NLess(x, y) THEN y ELSE x

\* Math.ceil of the quotient of two integers, b > 0
CeilDiv(a, b) == -((-a) \div b)

\* the whole milliseconds of a timer delay (ToInt32-style truncation, NaN and
\* negative delays fire as soon as possible)
Truncate(x) == IF ~IsFinite(x) \/ x[1] < 0 THEN 0 ELSE x[1] \div x[2]


(* ------------------------------- state -------------------------------- *)
VARIABLES
  transport,    \* the data properties of the transport object: ppq, bpm
  bpm,          \* createTransport's local `bpm`
  currentTick,  \* createTransport's local `currentTick`
  timeouts,     \* pending one-shot timers of scheduleTransition
  nextId,       \* number of scheduleTransition calls so far, plus one
  calls,        \* per transition: how often its onResolved has run
  seenTempo,    \* per transition: the tempo its onResolved found on entry
  layerStates,  \* createScheduler's `layerStates`: channel -> LayerState object
  heap,         \* the LayerState objects: reference -> fields
  intervals,    \* running interval timers of fadeLayerVolume, with their closures
  fadeCount,    \* number of interval timers started so far
  emitted,      \* the line the latest step wrote at the volume-update hook, if any
  cleared,      \* the running interval timers that have seen a clear()
  overlapped,   \* per channel: its latest fade began while a ramp ran on its LayerState
  returnedEarly, \* the latest step was a fade call that returned at `if (!state) return`
  cues,         \* the Cue objects the callers hold and pass in: id -> fields
  currentCue,   \* useImuse: the `currentCue` state
  pendingCue,   \* useImuse: the `pendingCue` state
  resolvers,    \* useImuse: per transition, the closure of its onResolved
  trail         \* the arguments of the advance calls made so far, where recorded

transportVars == <<transport, bpm, currentTick>>
transitionVars == <<timeouts, nextId, calls, seenTempo>>
schedulerVars == <<layerStates, heap, intervals, fadeCount, emitted, cleared, overlapped,
                   returnedEarly>>
vars == <<transport, bpm, currentTick, timeouts, nextId, calls, seenTempo,
          layerStates, heap, intervals, fadeCount, emitted, cleared, overlapped,
          returnedEarly, cues, currentCue, pendingCue, resolvers, trail>>
hookVars == <<currentCue, pendingCue, resolvers>>

TransitionIds == 1..MaxTransitions
NoState == 0
\* `null` where a Cue is expected
NoCue == [null |-> TRUE]
\* the Cue objects, as the callers hold them now, of the cues in S
Held(S) == {cues[c.id] : c \in S}
NoEvent == [timer |-> 0, channel |-> 0, volume |-> Num(0), afterClear |-> FALSE]

(* ------------------------------ transport ----------------------------- *)
\* createTransport(initialBpm, ppq): the object literal copies the value of
\* `bpm` into its own property; the closure keeps the local.
createTransport(initialBpm, ppqArg) ==
  /\ bpm = initialBpm
  /\ currentTick = 0
  /\ transport = [ppq |-> ppqArg, bpm |-> initialBpm]

\* mutant: the bar count rounded up
currentBarCeil == CeilDiv(currentTick, transport.ppq * BeatsPerBar)

\* mutant: one bar per beat
currentBarPerBeat == currentTick \div transport.ppq

currentBar == currentTick \div (transport.ppq * BeatsPerBar)

\* mutant: `=` for `+=`
advanceSet(ticks) ==
  /\ currentTick' = ticks
  /\ UNCHANGED <<transport, bpm>>

advance(ticks) ==
  /\ currentTick' = currentTick + ticks
  /\ UNCHANGED <<transport, bpm>>

setTempo(newBpm) ==
  /\ bpm' = newBpm
  /\ UNCHANGED <<transport, currentTick>>

(* ------------------------- transition manager ------------------------- *)
\* `const { waitForBar, matchKey, matchTempo } = options`: the value of one
\* destructured name, `undefined` for a property the object does not have
destructure(options, name) ==
  IF name \in DOMAIN options
  THEN IF options[name] THEN "true" ELSE "false"
  ELSE "undefined"

\* mutant: only `false` counts as false
ToBooleanLoose(v) == v # "false"

\* the test of `flag ? a : b` on such a value
ToBoolean(v) == v = "true"

ticksToMs(ticks, bpmArg, ppqArg) ==
  LET msPerBeat == NDiv(Num(MsPerMinute), Num(bpmArg))
  IN NMul(NDiv(Num(ticks), Num(ppqArg)), msPerBeat)

\* mutant: always the following bar, also on a boundary
nextBarTickStrict(nowTick, barLength) == ((nowTick \div barLength) + 1) * barLength

nextBarTick(nowTick, barLength) == CeilDiv(nowTick, barLength) * barLength

\* mutant: bar length minus the remainder, a whole bar on a boundary
delayTicksFullBar(waitForBar, nowTick, ppqArg) ==
  LET barLength == ppqArg * BeatsPerBar
  IN IF waitForBar THEN barLength - (nowTick % barLength) ELSE 0

delayTicks(waitForBar, nowTick, ppqArg) ==
  LET barLength == ppqArg * BeatsPerBar
  IN IF waitForBar THEN nextBarTick(nowTick, barLength) - nowTick ELSE 0

transposeAmount(from, to, matchKey) == IF matchKey THEN to.key - from.key ELSE 0
adjustedTempo(from, to, matchTempo) == IF matchTempo THEN from.tempo ELSE to.tempo

\* mutant: a zero delay resolves inside the call, without a timer
scheduleTransitionSync(from, to, options) ==
  LET ticks == delayTicks(ToBoolean(destructure(options, "waitForBar")),
                          currentTick, transport.ppq)
      ms == ticksToMs(ticks, transport.bpm, transport.ppq)
  IN IF Truncate(ms) = 0
     THEN /\ bpm' = adjustedTempo(from, to, ToBoolean(destructure(options, "matchTempo")))
          /\ seenTempo' = [seenTempo EXCEPT ![nextId] = bpm']
          /\ calls' = [calls EXCEPT ![nextId] = @ + 1]
          /\ nextId' = nextId + 1
          /\ UNCHANGED <<transport, currentTick, timeouts, cues>>
     ELSE /\ timeouts' = timeouts \cup
               {[id |-> nextId, after |-> Truncate(ms), delayTicks |-> ticks,
                 delayMs |-> ms,
                 adjustedTempo |-> adjustedTempo(from, to, ToBoolean(destructure(options, "matchTempo")))]}
          /\ nextId' = nextId + 1
          /\ UNCHANGED <<transport, bpm, currentTick, calls, seenTempo, cues>>

\* mutant: the transition also waits for the last entry point of the
\* incoming cue
scheduleTransitionEntry(from, to, options) ==
  LET entry == IF Len(to.entryPoints) = 0 THEN 0 ELSE to.entryPoints[Len(to.entryPoints)]
      ticks == delayTicks(ToBoolean(destructure(options, "waitForBar")),
                          currentTick, transport.ppq) + entry
      ms == ticksToMs(ticks, transport.bpm, transport.ppq)
  IN /\ timeouts' = timeouts \cup
          {[id |-> nextId, after |-> Truncate(ms), delayTicks |-> ticks,
            delayMs |-> ms,
            adjustedTempo |-> adjustedTempo(from, to, ToBoolean(destructure(options, "matchTempo")))]}
     /\ nextId' = nextId + 1
     /\ UNCHANGED <<transport, bpm, currentTick, calls, seenTempo, cues>>

\* scheduleTransition: computes the delay from the transport's readable
\* properties and registers a one-shot timer; nothing else changes.
\* The timer keeps, besides its closure (adjustedTempo), the delay computed
\* for it, in ticks and in milliseconds.
scheduleTransition(from, to, options) ==
  LET ticks == delayTicks(ToBoolean(destructure(options, "waitForBar")),
                          currentTick, transport.ppq)
      ms == ticksToMs(ticks, transport.bpm, transport.ppq)
  IN /\ timeouts' = timeouts \cup
          {[id |-> nextId, after |-> Truncate(ms), delayTicks |-> ticks,
            delayMs |-> ms,
            adjustedTempo |-> adjustedTempo(from, to, ToBoolean(destructure(options, "matchTempo")))]}
     /\ nextId' = nextId + 1
     /\ UNCHANGED <<transport, bpm, currentTick, calls, seenTempo, cues>>

\* mutant: onResolved first, setTempo after it
transitionCallbackResolveFirst(t) ==
  /\ seenTempo' = [seenTempo EXCEPT ![t.id] = bpm]
  /\ calls' = [calls EXCEPT ![t.id] = @ + 1]
  /\ bpm' = t.adjustedTempo
  /\ timeouts' = timeouts \ {t}
  /\ UNCHANGED <<transport, currentTick, nextId>>

\* mutant: the callback also moves the transport on by the delay
transitionCallbackSeek(t) ==
  /\ bpm' = t.adjustedTempo
  /\ currentTick' = currentTick + t.delayTicks
  /\ seenTempo' = [seenTempo EXCEPT ![t.id] = bpm']
  /\ calls' = [calls EXCEPT ![t.id] = @ + 1]
  /\ timeouts' = timeouts \ {t}
  /\ UNCHANGED <<transport, nextId>>

\* the timer callback of scheduleTransition: setTempo, then onResolved.
\* onResolved here is a probe that counts its runs and notes the tempo.
transitionCallback(t) ==
  /\ bpm' = t.adjustedTempo
  /\ seenTempo' = [seenTempo EXCEPT ![t.id] = bpm']
  /\ calls' = [calls EXCEPT ![t.id] = @ + 1]
  /\ timeouts' = timeouts \ {t}
  /\ UNCHANGED <<transport, currentTick, nextId>>

(* ------------------------------ event loop ---------------------------- *)
Dues == {t.after : t \in timeouts} \cup {i.after : i \in intervals}

Ready(t) ==
  /\ t.after = 0
  /\ \A u \in timeouts : u.after = 0 => u.id >= t.id

\* `ms` milliseconds pass
Pass(ms) ==
  /\ timeouts' = {[t EXCEPT !.after = @ - ms] : t \in timeouts}
  /\ intervals' = {[i EXCEPT !.after = @ - ms] : i \in intervals}

(* ------------------------------ scheduler ----------------------------- *)
\* a fresh object reference, and the objects still referenced by the map or
\* by the closure of a running interval (the others are garbage)
NewRef(h) == CHOOSE r \in 1..(Cardinality(DOMAIN h) + 1) : r \notin DOMAIN h
Live(ls, ivs) == ({ls[c] : c \in Channels} \ {NoState}) \cup {i.state : i \in ivs}
\* References are opaque: the live objects are renumbered in a fixed order
\* (by channel, then by the oldest interval holding them), so that two heaps
\* that differ only in the numbering are one state.
RefKey(r, ls, ivs) ==
  IF \E c \in Channels : ls[c] = r
  THEN CHOOSE c \in Channels : ls[c] = r
  ELSE Cardinality(Channels) + CHOOSE n \in {i.id : i \in ivs} :
         /\ \E i \in ivs : i.id = n /\ i.state = r
         /\ \A i \in ivs : i.state = r => i.id >= n
Rename(r, ls, ivs) ==
  1 + Cardinality({q \in Live(ls, ivs) : RefKey(q, ls, ivs) < RefKey(r, ls, ivs)})
RenamedStates(ls, ivs) ==
  [c \in Channels |-> IF ls[c] = NoState THEN NoState ELSE Rename(ls[c], ls, ivs)]
RenamedIntervals(ls, ivs) ==
  {[i EXCEPT !.state = Rename(i.state, ls, ivs)] : i \in ivs}
RenamedHeap(h, ls, ivs) ==
  [n \in 1..Cardinality(Live(ls, ivs)) |->
     h[CHOOSE r \in Live(ls, ivs) : Rename(r, ls, ivs) = n]]
\* the scheduler's memory after a step: garbage dropped, references renumbered
Store(ls, h, ivs) ==
  /\ layerStates' = RenamedStates(ls, ivs)
  /\ heap' = RenamedHeap(h, ls, ivs)
  /\ intervals' = RenamedIntervals(ls, ivs)

\* mutant: the muted flag is ignored
activateLayerUnmuted(st, layer) ==
  LET r == NewRef(st.heap)
      obj == [volume |-> Num(layer.volume),
              targetVolume |-> Num(layer.volume),
              fading |-> FALSE]
  IN [layerStates |-> [st.layerStates EXCEPT ![layer.channel] = r],
      heap |-> [x \in DOMAIN st.heap \cup {r} |-> IF x = r THEN obj ELSE st.heap[x]]]

\* the body of scheduleCue's forEach for one layer
activateLayer(st, layer) ==
  LET r == NewRef(st.heap)
      obj == [volume |-> IF layer.muted THEN Num(0) ELSE Num(layer.volume),
              targetVolume |-> Num(layer.volume),
              fading |-> FALSE]
  IN [layerStates |-> [st.layerStates EXCEPT ![layer.channel] = r],
      heap |-> [x \in DOMAIN st.heap \cup {r} |-> IF x = r THEN obj ELSE st.heap[x]]]

RECURSIVE forEachLayer(_, _, _)
forEachLayer(st, layers, k) ==
  IF k > Len(layers) THEN st
  ELSE forEachLayer(activateLayer(st, layers[k]), layers, k + 1)

\* mutant: scheduleCue clears the muted flag of the layers it was given
scheduleCueUnmute(cue) ==
  LET st == forEachLayer([layerStates |-> layerStates, heap |-> heap], cue.layers, 1)
  IN /\ Store(st.layerStates, st.heap, intervals)
     /\ overlapped' = [c \in Channels |->
                         IF \E k \in 1..Len(cue.layers) : cue.layers[k].channel = c
                         THEN FALSE ELSE overlapped[c]]
     /\ emitted' = NoEvent
     /\ returnedEarly' = FALSE
     /\ cues' = [cues EXCEPT ![cue.id].layers =
                   [k \in 1..Len(@) |-> [@[k] EXCEPT !.muted = FALSE]]]
     /\ UNCHANGED <<fadeCount, cleared>>

\* mutant: scheduleCue starts from an empty map
scheduleCueReset(cue) ==
  LET st == forEachLayer([layerStates |-> [c \in Channels |-> NoState], heap |-> heap],
                         cue.layers, 1)
  IN /\ Store(st.layerStates, st.heap, intervals)
     /\ overlapped' = [c \in Channels |->
                         IF \E k \in 1..Len(cue.layers) : cue.layers[k].channel = c
                         THEN FALSE ELSE overlapped[c]]
     /\ emitted' = NoEvent
     /\ returnedEarly' = FALSE
     /\ UNCHANGED <<fadeCount, cleared, cues>>

scheduleCue(cue) ==
  LET st == forEachLayer([layerStates |-> layerStates, heap |-> heap], cue.layers, 1)
  IN /\ Store(st.layerStates, st.heap, intervals)
     /\ overlapped' = [c \in Channels |->
                         IF \E k \in 1..Len(cue.layers) : cue.layers[k].channel = c
                         THEN FALSE ELSE overlapped[c]]
     /\ emitted' = NoEvent
     /\ returnedEarly' = FALSE
     /\ UNCHANGED <<fadeCount, cleared, cues>>

\* mutant: deletes the first key only
clearFirstKey ==
  LET keys == {c \in Channels : layerStates[c] # NoState}
      first == {c \in keys : \A k \in keys : c <= k}
  IN /\ Store([c \in Channels |-> IF c \in first THEN NoState ELSE layerStates[c]],
              heap, intervals)
     /\ cleared' = {i.id : i \in intervals}
     /\ overlapped' = [c \in Channels |-> FALSE]
     /\ emitted' = NoEvent
     /\ returnedEarly' = FALSE
     /\ UNCHANGED fadeCount

\* clear: deletes every key of layerStates; the interval timers are not touched
clear ==
  /\ Store([c \in Channels |-> NoState], heap, intervals)
  /\ cleared' = {i.id : i \in intervals}
  /\ overlapped' = [c \in Channels |-> FALSE]
  /\ emitted' = NoEvent
  /\ returnedEarly' = FALSE
  /\ UNCHANGED fadeCount

\* mutant: the number of steps rounded down
fadeStepsFloor(durationMs) == durationMs \div LAYER_FADE_INTERVAL

fadeSteps(durationMs) == CeilDiv(durationMs, LAYER_FADE_INTERVAL)

\* mutant: a fade on a channel without a LayerState creates one
fadeLayerVolumeCreate(channel, target, durationMs) ==
  LET state == layerStates[channel] IN
  IF state = NoState
  THEN LET r == NewRef(heap)
           obj == [volume |-> Num(0), targetVolume |-> Num(target), fading |-> FALSE]
       IN /\ Store([layerStates EXCEPT ![channel] = r],
                   [x \in DOMAIN heap \cup {r} |-> IF x = r THEN obj ELSE heap[x]],
                   intervals)
          /\ emitted' = NoEvent
          /\ returnedEarly' = TRUE
          /\ UNCHANGED <<fadeCount, cleared, overlapped>>
  ELSE
    LET startVolume == heap[state].volume
        steps == fadeSteps(durationMs)
        delta == NDiv(NSub(Num(target), startVolume), Num(steps))
    IN /\ Store(layerStates,
                [heap EXCEPT ![state].targetVolume = Num(target),
                             ![state].fading = TRUE],
                intervals \cup
                  {[id |-> fadeCount + 1, after |-> LAYER_FADE_INTERVAL,
                    channel |-> channel, state |-> state, target |-> Num(target),
                    startVolume |-> startVolume, steps |-> steps, delta |-> delta,
                    currentStep |-> 0]})
       /\ fadeCount' = fadeCount + 1
       /\ overlapped' = [overlapped EXCEPT ![channel] =
                           \E i \in intervals : i.channel = channel /\ i.state = state]
       /\ emitted' = NoEvent
       /\ returnedEarly' = FALSE
       /\ UNCHANGED cleared

fadeLayerVolume(channel, target, durationMs) ==
  LET state == layerStates[channel] IN
  IF state = NoState
  THEN /\ emitted' = NoEvent
       /\ returnedEarly' = TRUE
       /\ UNCHANGED <<layerStates, heap, intervals, fadeCount, cleared, overlapped>>
  ELSE
    LET startVolume == heap[state].volume
        steps == fadeSteps(durationMs)
        delta == NDiv(NSub(Num(target), startVolume), Num(steps))
    IN /\ Store(layerStates,
                [heap EXCEPT ![state].targetVolume = Num(target),
                             ![state].fading = TRUE],
                intervals \cup
                  {[id |-> fadeCount + 1, after |-> LAYER_FADE_INTERVAL,
                    channel |-> channel, state |-> state, target |-> Num(target),
                    startVolume |-> startVolume, steps |-> steps, delta |-> delta,
                    currentStep |-> 0]})
       /\ fadeCount' = fadeCount + 1
       /\ overlapped' = [overlapped EXCEPT ![channel] =
                           \E i \in intervals : i.channel = channel /\ i.state = state]
       /\ emitted' = NoEvent
       /\ returnedEarly' = FALSE
       /\ UNCHANGED cleared

fadeInLayer(channel, duration) == fadeLayerVolume(channel, MaxVolume, duration)
fadeOutLayer(channel, duration) == fadeLayerVolume(channel, 0, duration)

clamp(v) == MathMax(Num(0), MathMin(Num(MaxVolume), v))

\* mutant: the callback writes the volume to every LayerState object
intervalCallbackAll(i) ==
  IF layerStates[i.channel] = NoState
  THEN /\ Store(layerStates, heap, intervals \ {i})
       /\ emitted' = NoEvent
       /\ cleared' = cleared \ {i.id}
       /\ returnedEarly' = FALSE
       /\ UNCHANGED <<fadeCount, overlapped>>
  ELSE
    LET step == i.currentStep + 1
        v == clamp(NAdd(i.startVolume, NMul(i.delta, Num(step))))
        done == step >= i.steps
    IN /\ emitted' = [timer |-> i.id, channel |-> i.channel, volume |-> v,
                        afterClear |-> i.id \in cleared]
       /\ Store(layerStates,
                [r \in DOMAIN heap |->
                   IF done /\ r = i.state
                   THEN [heap[r] EXCEPT !.volume = i.target, !.fading = FALSE]
                   ELSE [heap[r] EXCEPT !.volume = v]],
                IF done THEN intervals \ {i}
                ELSE (intervals \ {i}) \cup
                     {[i EXCEPT !.currentStep = step,
                                !.after = LAYER_FADE_INTERVAL]})
       /\ cleared' = IF done THEN cleared \ {i.id} ELSE cleared
       /\ returnedEarly' = FALSE
       /\ UNCHANGED <<fadeCount, overlapped>>

\* mutant: without a LayerState on its channel the callback just returns,
\* the interval keeps running
intervalCallbackNoCancel(i) ==
  IF layerStates[i.channel] = NoState
  THEN /\ Store(layerStates, heap,
                (intervals \ {i}) \cup {[i EXCEPT !.after = LAYER_FADE_INTERVAL]})
       /\ emitted' = NoEvent
       /\ returnedEarly' = FALSE
       /\ UNCHANGED <<fadeCount, overlapped, cleared>>
  ELSE
    LET step == i.currentStep + 1
        v == clamp(NAdd(i.startVolume, NMul(i.delta, Num(step))))
        done == step >= i.steps
    IN /\ emitted' = [timer |-> i.id, channel |-> i.channel, volume |-> v,
                        afterClear |-> i.id \in cleared]
       /\ Store(layerStates,
                [heap EXCEPT ![i.state] =
                   IF done THEN [@ EXCEPT !.volume = i.target, !.fading = FALSE]
                   ELSE [@ EXCEPT !.volume = v]],
                IF done THEN intervals \ {i}
                ELSE (intervals \ {i}) \cup
                     {[i EXCEPT !.currentStep = step,
                                !.after = LAYER_FADE_INTERVAL]})
       /\ cleared' = IF done THEN cleared \ {i.id} ELSE cleared
       /\ returnedEarly' = FALSE
       /\ UNCHANGED <<fadeCount, overlapped>>

\* mutant: the last step leaves the clamped volume, the target is not set
intervalCallbackNoSnap(i) ==
  IF layerStates[i.channel] = NoState
  THEN /\ Store(layerStates, heap, intervals \ {i})
       /\ emitted' = NoEvent
       /\ cleared' = cleared \ {i.id}
       /\ returnedEarly' = FALSE
       /\ UNCHANGED <<fadeCount, overlapped>>
  ELSE
    LET step == i.currentStep + 1
        v == clamp(NAdd(i.startVolume, NMul(i.delta, Num(step))))
        done == step >= i.steps
    IN /\ emitted' = [timer |-> i.id, channel |-> i.channel, volume |-> v,
                        afterClear |-> i.id \in cleared]
       /\ Store(layerStates,
                [heap EXCEPT ![i.state] =
                   IF done THEN [@ EXCEPT !.volume = v, !.fading = FALSE]
                   ELSE [@ EXCEPT !.volume = v]],
                IF done THEN intervals \ {i}
                ELSE (intervals \ {i}) \cup
                     {[i EXCEPT !.currentStep = step,
                                !.after = LAYER_FADE_INTERVAL]})
       /\ cleared' = IF done THEN cleared \ {i.id} ELSE cleared
       /\ returnedEarly' = FALSE
       /\ UNCHANGED <<fadeCount, overlapped>>

\* mutant: the volume of a step is computed from the step count before its
\* increment
intervalCallbackLag(i) ==
  IF layerStates[i.channel] = NoState
  THEN /\ Store(layerStates, heap, intervals \ {i})
       /\ emitted' = NoEvent
       /\ cleared' = cleared \ {i.id}
       /\ returnedEarly' = FALSE
       /\ UNCHANGED <<fadeCount, overlapped>>
  ELSE
    LET step == i.currentStep + 1
        v == clamp(NAdd(i.startVolume, NMul(i.delta, Num(i.currentStep))))
        done == step >= i.steps
    IN /\ emitted' = [timer |-> i.id, channel |-> i.channel, volume |-> v,
                        afterClear |-> i.id \in cleared]
       /\ Store(layerStates,
                [heap EXCEPT ![i.state] =
                   IF done THEN [@ EXCEPT !.volume = i.target, !.fading = FALSE]
                   ELSE [@ EXCEPT !.volume = v]],
                IF done THEN intervals \ {i}
                ELSE (intervals \ {i}) \cup
                     {[i EXCEPT !.currentStep = step,
                                !.after = LAYER_FADE_INTERVAL]})
       /\ cleared' = IF done THEN cleared \ {i.id} ELSE cleared
       /\ returnedEarly' = FALSE
       /\ UNCHANGED <<fadeCount, overlapped>>

\* the interval callback of fadeLayerVolume; `i` carries the closure
\* (state, startVolume, steps, delta, currentStep)
intervalCallback(i) ==
  IF layerStates[i.channel] = NoState
  THEN /\ Store(layerStates, heap, intervals \ {i})
       /\ emitted' = NoEvent
       /\ cleared' = cleared \ {i.id}
       /\ returnedEarly' = FALSE
       /\ UNCHANGED <<fadeCount, overlapped>>
  ELSE
    LET step == i.currentStep + 1
        v == clamp(NAdd(i.startVolume, NMul(i.delta, Num(step))))
        done == step >= i.steps
    IN /\ emitted' = [timer |-> i.id, channel |-> i.channel, volume |-> v,
                        afterClear |-> i.id \in cleared]
       /\ Store(layerStates,
                [heap EXCEPT ![i.state] =
                   IF done THEN [@ EXCEPT !.volume = i.target, !.fading = FALSE]
                   ELSE [@ EXCEPT !.volume = v]],
                IF done THEN intervals \ {i}
                ELSE (intervals \ {i}) \cup
                     {[i EXCEPT !.currentStep = step,
                                !.after = LAYER_FADE_INTERVAL]})
       /\ cleared' = IF done THEN cleared \ {i.id} ELSE cleared
       /\ returnedEarly' = FALSE
       /\ UNCHANGED <<fadeCount, overlapped>>

ReadyInterval(i) ==
  /\ i.after = 0
  /\ \A u \in intervals : u.after = 0 => u.id >= i.id

(* ------------------------------- useImuse ----------------------------- *)
\* The hook owns one transport (120 bpm, 480 ppq), one scheduler and one
\* transition manager; nothing advances its transport.  Its handlers are
\* called from the latest render, so `currentCue` in a handler is the state
\* that the state setters have left.

\* mutant: playInitialCue without its scheduler.clear()
playInitialCueKeep(cue) ==
  /\ scheduleCue(cue)
  /\ bpm' = cue.tempo
  /\ currentCue' = cue
  /\ UNCHANGED <<transport, currentTick, transitionVars, pendingCue, resolvers>>

\* playInitialCue: scheduler.clear(), scheduler.scheduleCue(cue),
\* transport.setTempo(cue.tempo), setCurrentCue(cue)
playInitialCue(cue) ==
  LET st == forEachLayer([layerStates |-> [c \in Channels |-> NoState], heap |-> heap],
                         cue.layers, 1)
  IN /\ Store(st.layerStates, st.heap, intervals)
     /\ cleared' = {i.id : i \in intervals}
     /\ overlapped' = [c \in Channels |-> FALSE]
     /\ emitted' = NoEvent
     /\ returnedEarly' = FALSE
     /\ bpm' = cue.tempo
     /\ currentCue' = cue
     /\ UNCHANGED <<fadeCount, cues>>
     /\ UNCHANGED <<transport, currentTick, transitionVars, pendingCue, resolvers>>

\* transitionToCue: setPendingCue(cue), then scheduleTransition from
\* currentCue.  With currentCue null, scheduleTransition throws a TypeError
\* on `from.id` (or `from.key`, `from.tempo`) before it sets its timer.
\* `resolvers` keeps what the closures of the call hold.
transitionToCue(cue, options) ==
  /\ pendingCue' = cue
  /\ IF currentCue = NoCue
     THEN UNCHANGED <<transportVars, transitionVars, resolvers, cues>>
     ELSE /\ scheduleTransition(currentCue, cue, options)
          /\ resolvers' = [resolvers EXCEPT ![nextId] =
                             [cue |-> cue, from |-> currentCue,
                              matchTempo |-> ToBoolean(destructure(options, "matchTempo"))]]
  /\ UNCHANGED currentCue

\* the timer callback of a transition made by the hook:
\* transport.setTempo(adjustedTempo), then the hook's onResolved:
\* scheduler.scheduleCue(cue), transport.setTempo(cue.tempo),
\* setCurrentCue(cue), setPendingCue(null)
hookTimerCallback(t) ==
  LET cue == resolvers[t.id].cue IN
    /\ seenTempo' = [seenTempo EXCEPT ![t.id] = t.adjustedTempo]
    /\ calls' = [calls EXCEPT ![t.id] = @ + 1]
    /\ scheduleCue(cue)
    /\ bpm' = cue.tempo
    /\ currentCue' = cue
    /\ pendingCue' = NoCue
    /\ timeouts' = timeouts \ {t}
    /\ resolvers' = [resolvers EXCEPT ![t.id] = NoCue]
    /\ UNCHANGED <<transport, currentTick, nextId>>

(* ---------------------------- specification --------------------------- *)
Init ==
  /\ createTransport(InitialBpm, DefaultPpq)
  /\ timeouts = {}
  /\ nextId = 1
  /\ calls = [i \in TransitionIds |-> 0]
  /\ seenTempo = [i \in TransitionIds |-> 0]
  /\ layerStates = [c \in Channels |-> NoState]
  /\ heap = <<>>
  /\ intervals = {}
  /\ fadeCount = 0
  /\ emitted = NoEvent
  /\ cleared = {}
  /\ overlapped = [c \in Channels |-> FALSE]
  /\ returnedEarly = FALSE
  /\ cues = [n \in {c.id : c \in Cues} |-> CHOOSE c \in Cues : c.id = n]
  /\ currentCue = NoCue
  /\ pendingCue = NoCue
  /\ resolvers = [i \in TransitionIds |-> NoCue]
  /\ trail = <<>>

\* mutant: an advance re-derives the delay of every waiting bar transition
\* from the new tick
AdvanceRetimed ==
  \E n \in TickSteps :
    /\ currentTick + n <= MaxTick
    /\ currentTick + n >= -MaxRewind
    /\ advance(n)
    /\ timeouts' =
         {IF t.delayTicks > 0
          THEN [t EXCEPT !.after =
                  Truncate(ticksToMs(delayTicks(TRUE, currentTick + n, transport.ppq),
                                     transport.bpm, transport.ppq))]
          ELSE t : t \in timeouts}
    /\ UNCHANGED <<nextId, calls, seenTempo>>
    /\ UNCHANGED <<schedulerVars, hookVars, trail, cues>>

Advance ==
  \E n \in TickSteps :
    /\ currentTick + n <= MaxTick
    /\ currentTick + n >= -MaxRewind
    /\ advance(n)
    /\ UNCHANGED <<transitionVars, schedulerVars, hookVars, trail, cues>>

SetTempo ==
  \E b \in TempoSet :
    /\ setTempo(b)
    /\ UNCHANGED <<transitionVars, schedulerVars, hookVars, trail, cues>>

\* TransitionOptions: every flag is optional.  The calls made give all three
\* flags, each true or false, or at most one flag, as true, and omit the rest.
OptionNames == {"waitForBar", "matchKey", "matchTempo"}
Options ==
  {o \in UNION {[F -> BOOLEAN] : F \in SUBSET OptionNames} :
     \/ DOMAIN o = OptionNames
     \/ Cardinality(DOMAIN o) <= 1 /\ \A n \in DOMAIN o : o[n]}

ScheduleTransition ==
  \E from \in Held(TransitionCues), to \in Held(TransitionCues), options \in Options :
    /\ nextId <= MaxTransitions
    /\ scheduleTransition(from, to, options)
    /\ UNCHANGED <<schedulerVars, hookVars, trail>>

FireTimeout ==
  \E t \in timeouts :
    /\ Ready(t)
    /\ transitionCallback(t)
    /\ UNCHANGED <<schedulerVars, hookVars, trail, cues>>

\* advance, with the argument noted in `trail`
AdvanceTracked ==
  \E n \in FineSteps :
    /\ Len(trail) < MaxAdvances
    /\ currentTick + n <= MaxTick
    /\ currentTick + n >= -MaxRewind
    /\ advance(n)
    /\ trail' = Append(trail, n)
    /\ UNCHANGED <<transitionVars, schedulerVars, hookVars, cues>>

\* the clock runs on to the next timer
Elapse ==
  /\ Dues # {}
  /\ \A d \in Dues : d > 0
  /\ \E ms \in Dues :
       /\ \A d \in Dues : ms <= d
       /\ Pass(ms)
  /\ emitted' = NoEvent
  /\ returnedEarly' = FALSE
  /\ UNCHANGED <<transportVars, nextId, calls, seenTempo>>
  /\ UNCHANGED <<layerStates, heap, fadeCount, cleared, overlapped>>
  /\ UNCHANGED <<hookVars, trail, cues>>

ScheduleCue ==
  \E cue \in Held(SchedulerCues) :
    /\ scheduleCue(cue)
    /\ UNCHANGED <<transportVars, transitionVars, hookVars, trail>>

Clear ==
  /\ clear
  /\ UNCHANGED <<transportVars, transitionVars, hookVars, trail, cues>>

FadeIn ==
  \E c \in Channels, d \in DurationSet :
    /\ fadeCount < MaxFades
    /\ fadeInLayer(c, d)
    /\ UNCHANGED <<transportVars, transitionVars, hookVars, trail, cues>>

FadeOut ==
  \E c \in Channels, d \in DurationSet :
    /\ fadeCount < MaxFades
    /\ fadeOutLayer(c, d)
    /\ UNCHANGED <<transportVars, transitionVars, hookVars, trail, cues>>

FireInterval ==
  \E i \in intervals :
    /\ ReadyInterval(i)
    /\ intervalCallback(i)
    /\ UNCHANGED <<transportVars, transitionVars, hookVars, trail, cues>>

\* transport and transition manager, onResolved a probe
Next == Advance \/ SetTempo \/ ScheduleTransition \/ FireTimeout \/ Elapse
Spec == Init /\ [][Next]_vars
FairSpec == Spec /\ WF_vars(FireTimeout) /\ WF_vars(Elapse)

\* the transport alone, single ticks around a bar boundary
TransportNext == AdvanceTracked \/ SetTempo
TransportSpec == Init /\ [][TransportNext]_vars

\* useImuse
PlayInitialCue ==
  \E cue \in Held(Cues) :
    /\ playInitialCue(cue)
    /\ UNCHANGED trail

TransitionToCue ==
  \E cue \in Held(Cues), options \in Options :
    /\ nextId <= MaxTransitions
    /\ transitionToCue(cue, options)
    /\ UNCHANGED <<schedulerVars, trail>>

FireHookTimeout ==
  \E t \in timeouts :
    /\ Ready(t)
    /\ hookTimerCallback(t)
    /\ UNCHANGED trail

HookNext == PlayInitialCue \/ TransitionToCue \/ FireHookTimeout
HookSpec == Init /\ [][HookNext]_vars

\* transport, transition manager and the scheduler's cue activation, as a
\* caller that owns all three uses them; onResolved a probe
CoordNext == Next \/ ScheduleCue
CoordSpec == Init /\ [][CoordNext]_vars

\* scheduler
SchedNext == ScheduleCue \/ Clear \/ FadeIn \/ FadeOut \/ FireInterval \/ Elapse
SchedSpec == Init /\ [][SchedNext]_vars

(* ------------------------------- claims ------------------------------- *)
Pending(i) == \E t \in timeouts : t.id = i
\* the options give the flag as true
Given(options, name) == name \in DOMAIN options /\ options[name]
BarLength == transport.ppq * BeatsPerBar
\* the step is the call scheduleTransition({from, to, options, onResolved})
Calls(from, to, options) ==
  /\ nextId <= MaxTransitions
  /\ nextId' = nextId + 1
  /\ scheduleTransition(from, to, options)
\* the timer that the call of this step has registered
Registered(t) == t \in timeouts' /\ t.id = nextId

\* C1: every scheduleTransition call gets its onResolved run exactly once,
\* and never inside the call: the step that makes the call registers a timer
\* and leaves the new transition's run count at zero, the count stays zero
\* while the timer is pending, never exceeds one, and reaches one, also for
\* a zero delay and with other transitions pending.
C1_OnResolvedOnceDeferred ==
  /\ [](\A i \in TransitionIds : calls[i] <= 1 /\ (Pending(i) => calls[i] = 0))
  /\ [][nextId' # nextId =>
         calls'[nextId] = 0 /\ \E t \in timeouts' : t.id = nextId]_vars
  /\ \A i \in TransitionIds : [](i < nextId => <>(calls[i] = 1))
C1_Witness ==
  \E t \in timeouts :
    /\ t.after > 0
    /\ \E i \in TransitionIds : calls[i] = 1 /\ i > t.id

\* C2: a waitForBar transition requested at tick t >= 0 waits d ticks with
\* 0 <= d < ppq*4 and t + d a multiple of ppq*4; on a bar boundary d = 0.
C2_DelayReachesNextBar ==
  [][\A from \in TransitionCues, to \in TransitionCues, options \in Options :
       (Given(options, "waitForBar") /\ currentTick >= 0 /\ Calls(from, to, options)) =>
         \E t \in timeouts' :
           /\ Registered(t)
           /\ 0 <= t.delayTicks
           /\ t.delayTicks < BarLength
           /\ (currentTick + t.delayTicks) % BarLength = 0
           /\ (currentTick % BarLength = 0 => t.delayTicks = 0)]_vars
\* a timer registered off a bar boundary by a waitForBar call at this tick
C2_Witness ==
  /\ currentTick % BarLength # 0
  /\ \E t \in timeouts :
       /\ t.delayTicks > 0
       /\ (currentTick + t.delayTicks) % BarLength = 0

\* the scenario of C3: ppq 480, tempo 120, tick 0, from a cue of tempo 120 to
\* a cue of tempo 100, waitForBar and matchTempo
C3_Scenario(from, to, options) ==
  /\ transport.ppq = 480 /\ bpm = 120 /\ currentTick = 0
  /\ from.tempo = 120 /\ to.tempo = 100
  /\ Given(options, "waitForBar") /\ Given(options, "matchTempo")
  /\ Calls(from, to, options)

\* C3 as stated: in the scenario the delay is 1920 ticks, 1920 ms.
C3_DelayIs1920 ==
  [][\A from \in TransitionCues, to \in TransitionCues, options \in Options :
       C3_Scenario(from, to, options) =>
         \E t \in timeouts' :
           Registered(t) /\ t.delayTicks = 1920 /\ t.delayMs = Num(1920)]_vars

\* C3, amended: in the scenario tick 0 is a bar boundary, so the delay is
\* 0 ticks, 0 ms.
C3_DelayIsZero ==
  [][\A from \in TransitionCues, to \in TransitionCues, options \in Options :
       C3_Scenario(from, to, options) =>
         \E t \in timeouts' :
           Registered(t) /\ t.delayTicks = 0 /\ t.delayMs = Num(0) /\ t.after = 0]_vars
\* the state the scenario's call leaves: made at tick 0 as the first call
C3_Witness ==
  /\ transport.ppq = 480 /\ bpm = 120 /\ currentTick = 0 /\ nextId = 2
  /\ \E t \in timeouts : t.id = 1 /\ t.adjustedTempo = 120

C5_DelayUsesCurrentTempo ==
  [][\A from \in TransitionCues, to \in TransitionCues, options \in Options :
       (Given(options, "waitForBar") /\ Calls(from, to, options)) =>
         \E t \in timeouts' :
           /\ Registered(t)
           /\ t.delayMs = NMul(NDiv(Num(t.delayTicks), Num(transport.ppq)),
                               NDiv(Num(MsPerMinute), Num(bpm)))]_vars

\* C6 as stated: the transport's readable bpm is the current tempo.
C6_BpmFieldIsTempo == transport.bpm = bpm

\* C7 as stated: at most one ramp timer is active per channel.
C7_OneRampPerChannel ==
  \A c \in Channels : Cardinality({i \in intervals : i.channel = c}) <= 1

\* C8 as stated: after a fade that began while another ramp was running on
\* the channel, once all timers have run out the channel's volume is the
\* later fade's target (its targetVolume) and fading is false.
C8_SecondFadeWins ==
  intervals = {} =>
    \A c \in Channels :
      (layerStates[c] # NoState /\ overlapped[c]) =>
        /\ heap[layerStates[c]].volume = heap[layerStates[c]].targetVolume
        /\ ~heap[layerStates[c]].fading

\* C9 as stated: no fade started before a clear() writes a volume update
\* after it.
C9_NoUpdateAfterClear == ~emitted.afterClear

\* C10: a clear() step leaves no channel with a LayerState.
C10_ClearRemovesAll ==
  [][Clear => \A c \in Channels : layerStates'[c] = NoState]_vars
C10_Witness ==
  /\ cleared # {}
  /\ \A c \in Channels : layerStates[c] = NoState

\* the LayerState object of channel c, before and after the step
StateOf(c) == heap[layerStates[c]]
StateOfNext(c) == heap'[layerStates'[c]]
\* the step is the call scheduleCue(cue)
CallsScheduleCue(cue) == scheduleCue(cue)

\* C11: a scheduleCue(cue) step leaves, for every layer of the cue, on
\* layer.channel a LayerState with volume 0 if the layer is muted and
\* layer.volume otherwise, targetVolume layer.volume and fading false; the
\* state is a new object that no running ramp holds, whatever the channel
\* had before.
C11_ScheduleCueInitialises ==
  [][\A cue \in SchedulerCues :
       CallsScheduleCue(cue) =>
         \A k \in 1..Len(cue.layers) :
           LET layer == cue.layers[k] IN
             /\ layerStates'[layer.channel] # NoState
             /\ StateOfNext(layer.channel) =
                  [volume |-> IF layer.muted THEN Num(0) ELSE Num(layer.volume),
                   targetVolume |-> Num(layer.volume),
                   fading |-> FALSE]
             /\ \A i \in intervals' : i.state # layerStates'[layer.channel]]_vars
\* channel 1 holds the state of the muted layer of CueC while a ramp that
\* was started on the channel's earlier state is still running
C11_Witness ==
  /\ layerStates[1] # NoState
  /\ StateOf(1) = [volume |-> Num(0), targetVolume |-> Num(64), fading |-> FALSE]
  /\ \E i \in intervals : i.channel = 1 /\ i.state # layerStates[1]

\* C12 as stated: once scheduleCue has replaced the LayerState of a channel,
\* a ramp that was running on the earlier state runs no further step: every
\* volume update comes from a timer whose state is still its channel's (the
\* timers that have seen a clear() are left to C9).
C12_ReplacedRampIsDiscarded ==
  [][emitted'.timer # 0 =>
       \E i \in intervals :
         /\ i.id = emitted'.timer
         /\ (i.state = layerStates[i.channel] \/ i.id \in cleared)]_vars

\* the step is the call fadeInLayer(c, d) / fadeOutLayer(c, d)
CallsFadeIn(c, d) == fadeCount < MaxFades /\ fadeInLayer(c, d)
CallsFadeOut(c, d) == fadeCount < MaxFades /\ fadeOutLayer(c, d)
\* the step is a run of the interval callback of ramp i
Fires(i) == ReadyInterval(i) /\ intervalCallback(i)
\* ramp i runs on the present LayerState of its channel, is the only timer of
\* the channel, and no fade met another ramp on that state
Undisturbed(i) ==
  /\ i.state = layerStates[i.channel]
  /\ ~overlapped[i.channel]
  /\ \A j \in intervals : j.channel = i.channel => j = i

\* C13: a fade of d > 0 ms on a scheduled channel gets ceil(d/16) steps;
\* while nothing else touches the channel, every timer step of a fade-in
\* leaves the volume no lower than before, every step of a fade-out no
\* higher, the ramp ends at its step number ceil(d/16) and not before, and it
\* ends with the volume exactly 127 (fade-in) or 0 (fade-out) and fading
\* false.
C13_FadeMonotoneExact ==
  /\ [][\A c \in Channels, d \in DurationSet :
          (d > 0 /\ layerStates[c] # NoState /\ (CallsFadeIn(c, d) \/ CallsFadeOut(c, d))) =>
            \E i \in intervals' :
              /\ i.id = fadeCount + 1 /\ i.channel = c /\ i.currentStep = 0
              /\ (i.steps - 1) * LAYER_FADE_INTERVAL < d
              /\ d <= i.steps * LAYER_FADE_INTERVAL
              /\ i.target = IF CallsFadeIn(c, d) THEN Num(MaxVolume) ELSE Num(0)]_vars
  /\ [][\A i \in intervals :
          (i.steps >= 1 /\ Undisturbed(i) /\ Fires(i)) =>
            /\ layerStates'[i.channel] # NoState
            /\ i.target = Num(MaxVolume) =>
                 ~NLess(StateOfNext(i.channel).volume, StateOf(i.channel).volume)
            /\ i.target = Num(0) =>
                 ~NLess(StateOf(i.channel).volume, StateOfNext(i.channel).volume)
            /\ IF i.currentStep + 1 = i.steps
               THEN /\ StateOfNext(i.channel).volume = i.target
                    /\ ~StateOfNext(i.channel).fading
                    /\ \A j \in intervals' : j.id # i.id
               ELSE /\ StateOfNext(i.channel).fading
                    /\ \E j \in intervals' :
                         j.id = i.id /\ j.currentStep = i.currentStep + 1]_vars
\* channel 0 has finished a fade-out at exactly 0 while channel 1, scheduled
\* muted, is two steps into a three-step fade-in
C13_Witness ==
  /\ layerStates[0] # NoState
  /\ StateOf(0) = [volume |-> Num(0), targetVolume |-> Num(0), fading |-> FALSE]
  /\ \E i \in intervals :
       /\ Undisturbed(i) /\ i.channel = 1
       /\ i.target = Num(MaxVolume) /\ i.startVolume = Num(0)
       /\ i.steps = 3 /\ i.currentStep = 2
       /\ StateOf(1).volume = <<254, 3>>

\* C14 as stated: every ramp, also one of duration 0, has at least one step
\* and a per-step delta that is a finite number (nothing was divided by
\* zero).
C14_AtLeastOneStep ==
  \A i \in intervals : i.steps >= 1 /\ IsFinite(i.delta)

\* C15: a fadeInLayer or fadeOutLayer call on a channel without a LayerState
\* returns at once and is a no-op: the channel still has no LayerState, no
\* object and no timer is created or changed, nothing is written at the
\* volume-update hook; and every timer that exists was started on an
\* existing LayerState, so no later event stems from such a call.
C15_FadeWithoutStateIsNoOp ==
  /\ [][\A c \in Channels, d \in DurationSet :
          (layerStates[c] = NoState /\ (CallsFadeIn(c, d) \/ CallsFadeOut(c, d))) =>
            /\ returnedEarly'
            /\ layerStates'[c] = NoState
            /\ UNCHANGED <<layerStates, heap, intervals, fadeCount>>
            /\ emitted' = NoEvent]_vars
  /\ [][returnedEarly' =>
          UNCHANGED <<layerStates, heap, intervals, fadeCount>>]_vars
  /\ [](\A i \in intervals : i.state # NoState)
\* a fade call has just returned early on a scheduler where channel 0 has no
\* LayerState, while channel 1 has one with a ramp running on it
C15_Witness ==
  /\ returnedEarly
  /\ layerStates[0] = NoState
  /\ layerStates[1] # NoState
  /\ \E i \in intervals : i.channel = 1 /\ i.state = layerStates[1]

\* the step leaves channel c as it is: with the same fields, or without a
\* LayerState as before
Untouched(c) ==
  IF layerStates[c] = NoState THEN layerStates'[c] = NoState
  ELSE layerStates'[c] # NoState /\ StateOfNext(c) = StateOf(c)

\* C16: neither a fadeInLayer / fadeOutLayer call on a channel nor any timer
\* step of a ramp of that channel changes volume, targetVolume or fading of
\* another channel.
C16_FadeLeavesOtherChannels ==
  /\ [][\A c \in Channels, d \in DurationSet :
          (CallsFadeIn(c, d) \/ CallsFadeOut(c, d)) =>
            \A o \in Channels \ {c} : Untouched(o)]_vars
  /\ [][\A i \in intervals :
          Fires(i) => \A o \in Channels \ {i.channel} : Untouched(o)]_vars
\* CueA was scheduled on channels 0 and 1 and a single fade-out of
\* channel 0 has run to its end; channel 1 is as scheduled
C16_Witness ==
  /\ fadeCount = 1 /\ intervals = {}
  /\ layerStates[0] # NoState /\ layerStates[1] # NoState
  /\ StateOf(0) = [volume |-> Num(0), targetVolume |-> Num(0), fading |-> FALSE]
  /\ StateOf(1) = [volume |-> Num(80), targetVolume |-> Num(80), fading |-> FALSE]

\* C17: a scheduleCue(cue) step leaves every channel that is the channel of
\* no layer of the cue as it was: the same volume, targetVolume and fading,
\* or no LayerState as before.
C17_ScheduleCueLeavesOtherChannels ==
  [][\A cue \in SchedulerCues :
       CallsScheduleCue(cue) =>
         \A c \in Channels :
           (\A k \in 1..Len(cue.layers) : cue.layers[k].channel # c) =>
             Untouched(c)]_vars
\* channel 1 holds the state that scheduling CueC (one layer, channel 1)
\* gives it, channel 0 is still one step into a fade-in from CueA's volume
C17_Witness ==
  /\ layerStates[0] # NoState /\ layerStates[1] # NoState
  /\ StateOf(1) = [volume |-> Num(0), targetVolume |-> Num(64), fading |-> FALSE]
  /\ StateOf(0) = [volume |-> Num(109), targetVolume |-> Num(MaxVolume), fading |-> TRUE]

\* the step is the call setTempo(b) / advance(n)
CallsSetTempo(b) == setTempo(b)
CallsAdvance(n) ==
  /\ currentTick + n <= MaxTick
  /\ currentTick + n >= -MaxRewind
  /\ advance(n)

\* C18 as stated: a setTempo(b) call with b <= 0 is rejected and leaves the
\* transport's tempo as it was.
C18_NonPositiveTempoRejected ==
  [][\A b \in TempoSet : (b <= 0 /\ CallsSetTempo(b)) => bpm' = bpm]_vars

\* C19 as stated: an advance(n) call with n < 0 is rejected and leaves
\* currentTick as it was.
C19_NegativeAdvanceRejected ==
  [][\A n \in TickSteps : (n < 0 /\ CallsAdvance(n)) => currentTick' = currentTick]_vars

\* C20 as stated: no step makes currentTick smaller.
C20_CurrentTickMonotone ==
  [][currentTick' >= currentTick]_vars

\* the options with every omitted flag written out as false
Explicit(options) == [n \in OptionNames |-> Given(options, n)]

\* C25: a scheduleTransition call whose options give waitForBar as false or
\* omit it registers a timer with a delay of 0 ticks and 0 ms, at whatever
\* tick; an omitted matchTempo selects to.tempo as false does, an omitted
\* matchKey yields the transpose amount 0, and the call leaves exactly what
\* the same call with every omitted flag given as false leaves.
C25_NoWaitMeansNoDelay ==
  [][\A from \in TransitionCues, to \in TransitionCues, options \in Options :
       Calls(from, to, options) =>
         /\ Calls(from, to, Explicit(options))
         /\ "matchKey" \notin DOMAIN options =>
              transposeAmount(from, to,
                              ToBoolean(destructure(options, "matchKey"))) = 0
         /\ \E t \in timeouts' :
              /\ Registered(t)
              /\ ~Given(options, "waitForBar") =>
                   t.delayTicks = 0 /\ t.delayMs = Num(0) /\ t.after = 0
              /\ "matchTempo" \notin DOMAIN options =>
                   t.adjustedTempo = to.tempo]_vars
\* off a bar boundary, a timer with no delay is due at once
C25_Witness ==
  /\ currentTick % BarLength # 0
  /\ \E t \in timeouts : t.delayTicks = 0 /\ t.after = 0 /\ t.id = nextId - 1

\* C24 as stated: the transpose amount of a matchKey transition is exposed.
\* A call returns nothing; what it leaves is its timer with the closure and a
\* log line of from.id, to.id and the delay.  So a call with matchKey true
\* between cues of different keys, whose amount is to.key - from.key # 0,
\* would have to leave something else than the same call with matchKey false,
\* whose amount is 0.
C24_TransposeExposed ==
  [][\A from \in TransitionCues, to \in TransitionCues, options \in Options :
       (/\ Given(options, "matchKey")
        /\ transposeAmount(from, to, ToBoolean(destructure(options, "matchKey")))
             = to.key - from.key
        /\ to.key # from.key
        /\ Calls(from, to, options)) =>
         ~Calls(from, to, [options EXCEPT !.matchKey = FALSE])]_vars

C23_AdvanceAdditive ==
  /\ (Len(trail) = 2 /\ trail[1] >= 0 /\ trail[2] >= 0) =>
       currentTick = trail[1] + trail[2]
  /\ (Len(trail) = 3 /\ trail[2] >= 0 /\ trail[3] >= 0) =>
       /\ currentTick = trail[1] + (trail[2] + trail[3])
       /\ currentTick = (trail[1] + trail[3]) + trail[2]
\* from tick -1, advance(1919) and advance(1)
C23_Witness ==
  /\ trail = <<-1, 1919, 1>>
  /\ currentTick = 1919

\* the step is a run of the timer callback of the hook's transition t
HookFires(t) == Ready(t) /\ hookTimerCallback(t)
\* the step is the call playInitialCue(cue) / transitionToCue(cue, options)
CallsPlayInitialCue(cue) == playInitialCue(cue)
CallsTransitionToCue(cue, options) ==
  nextId <= MaxTransitions /\ transitionToCue(cue, options)

C27_MatchTempoKeepsOutgoing ==
  [][\A t \in timeouts :
       (HookFires(t) /\ resolvers[t.id].matchTempo) =>
         bpm' = resolvers[t.id].from.tempo]_vars

\* C28 as stated: pendingCue is non-null exactly while a transition of the
\* hook is waiting to resolve, and it is then the target of a waiting
\* transition.
C28_PendingCueTracksTransition ==
  /\ pendingCue # NoCue <=> timeouts # {}
  /\ timeouts # {} => \E t \in timeouts : resolvers[t.id].cue = pendingCue

\* C29: a playInitialCue(cue) step leaves a LayerState on exactly the
\* channels of cue.layers, each with volume 0 if its layer is muted and
\* layer.volume otherwise, targetVolume layer.volume and fading false; the
\* transport's tempo is cue.tempo and currentCue is cue.
C29_PlayInitialCueResets ==
  [][\A cue \in Cues :
       CallsPlayInitialCue(cue) =>
         /\ \A c \in Channels :
              layerStates'[c] # NoState <=>
                \E k \in 1..Len(cue.layers) : cue.layers[k].channel = c
         /\ \A k \in 1..Len(cue.layers) :
              LET layer == cue.layers[k] IN
                StateOfNext(layer.channel) =
                  [volume |-> IF layer.muted THEN Num(0) ELSE Num(layer.volume),
                   targetVolume |-> Num(layer.volume),
                   fading |-> FALSE]
         /\ bpm' = cue.tempo
         /\ currentCue' = cue]_vars
\* after a transition from a two-channel cue was requested, CueC is played
\* as the initial cue: channel 0 is gone, channel 1 is CueC's muted layer
C29_Witness ==
  /\ currentCue = CueC /\ bpm = 100
  /\ nextId = 2 /\ calls[1] = 0
  /\ layerStates[0] = NoState /\ layerStates[1] # NoState
  /\ StateOf(1) = [volume |-> Num(0), targetVolume |-> Num(64), fading |-> FALSE]
  /\ \E t \in timeouts : resolvers[t.id].from # CueC

\* C30 as stated: a clear() step leaves no fade timer running.
C30_ClearCancelsTimers ==
  [][Clear => intervals' = {}]_vars

\* C31 as stated: every timer step of a ramp works on the LayerState that its
\* channel has at that moment: the step writes its volume to that state, also
\* when scheduleCue has replaced the state since the fade began.
C31_StepUsesCurrentState ==
  [][\A i \in intervals :
       (Fires(i) /\ layerStates[i.channel] # NoState) =>
         /\ i.state = layerStates[i.channel]
         /\ StateOfNext(i.channel).volume \in {emitted'.volume, i.target}]_vars

\* C32 as stated: a channel's LayerState has fading true exactly while a ramp
\* timer of the channel is running.
C32_FadingIffRampActive ==
  \A c \in Channels :
    layerStates[c] # NoState =>
      (StateOf(c).fading <=> \E i \in intervals : i.channel = c)

\* a number within [0, 127]
InVolumeRange(v) ==
  IsFinite(v) /\ ~NLess(v, Num(0)) /\ ~NLess(Num(MaxVolume), v)

\* C33: with every layer volume handed to scheduleCue within [0, 127], the
\* volume of every LayerState object, the replaced ones that a ramp still
\* holds included, is a number within [0, 127] in every state between two
\* callbacks, whatever scheduleCue, clear and fade calls of positive, zero or
\* negative duration were made and however the ramps overlap.
C33_VolumeInRange ==
  (\A c \in Cues : \A k \in 1..Len(c.layers) : c.layers[k].volume \in 0..MaxVolume) =>
    \A r \in DOMAIN heap : InVolumeRange(heap[r].volume)
\* a ramp of a zero duration, its delta not a finite number, and a ramp of a
\* negative duration are running on the same LayerState
C33_Witness ==
  \E i \in intervals, j \in intervals :
    /\ i.state = j.state
    /\ i.steps = 0 /\ ~IsFinite(i.delta)
    /\ j.steps < 0

\* C34: a fade call of duration d with ceil(d/16) > 0 on a scheduled channel
\* starts a ramp from the channel's volume s to its target g in that many
\* steps.  While nothing else touches the channel, its k-th timer step writes
\* exactly one volume update, of s + k*(g - s)/steps clamped to [0, 127];
\* for k < steps it leaves that volume in the LayerState, with fading still
\* true, and at k = steps it leaves the volume g and fading false.
C34_LinearRamp ==
  /\ [][\A c \in Channels, d \in DurationSet :
          (d > 0 /\ layerStates[c] # NoState /\ (CallsFadeIn(c, d) \/ CallsFadeOut(c, d))) =>
            \E i \in intervals' :
              /\ i.id = fadeCount + 1 /\ i.channel = c /\ i.currentStep = 0
              /\ i.startVolume = StateOf(c).volume
              /\ i.steps > 0
              /\ (i.steps - 1) * LAYER_FADE_INTERVAL < d
              /\ d <= i.steps * LAYER_FADE_INTERVAL]_vars
  /\ [][\A i \in intervals :
          (i.steps > 0 /\ Undisturbed(i) /\ Fires(i)) =>
            LET k == i.currentStep + 1
                s == i.startVolume
                g == i.target
                linear == NAdd(s, NDiv(NMul(Num(k), NSub(g, s)), Num(i.steps)))
                clamped == IF NLess(linear, Num(0)) THEN Num(0)
                           ELSE IF NLess(Num(MaxVolume), linear) THEN Num(MaxVolume)
                           ELSE linear
            IN /\ emitted'.timer = i.id
               /\ emitted'.channel = i.channel
               /\ emitted'.volume = clamped
               /\ layerStates'[i.channel] # NoState
               /\ IF k < i.steps
                  THEN /\ StateOfNext(i.channel).volume = clamped
                       /\ StateOfNext(i.channel).fading
                  ELSE /\ StateOfNext(i.channel).volume = g
                       /\ ~StateOfNext(i.channel).fading]_vars
\* channel 0, scheduled at volume 100, has just run the first of the three
\* steps of a fade-out: 100 - 100/3
C34_Witness ==
  /\ layerStates[0] # NoState
  /\ emitted.channel = 0 /\ emitted.volume = <<200, 3>>
  /\ StateOf(0) = [volume |-> <<200, 3>>, targetVolume |-> Num(0), fading |-> TRUE]
  /\ \E i \in intervals :
       /\ Undisturbed(i) /\ i.id = emitted.timer
       /\ i.startVolume = Num(100) /\ i.target = Num(0)
       /\ i.steps = 3 /\ i.currentStep = 1

\* the scheduler with an event loop that keeps running: time passes while a
\* timer is waiting, and a timer that is due fires
\* (weak fairness of FireInterval and of Elapse, with the enabling conditions
\* of the two actions written out)
IntervalDue == \E i \in intervals : i.after = 0
ClockRuns == Dues # {} /\ \A d \in Dues : d > 0
FairSchedSpec ==
  /\ SchedSpec
  /\ ([]<>(~IntervalDue) \/ []<><<FireInterval>>_vars)
  /\ ([]<>(~ClockRuns) \/ []<><<Elapse>>_vars)

\* the interval timer of the n-th fade is running
Running(n) == \E i \in intervals : i.id = n

\* C35: every interval timer that a fade call has started is cleared at some
\* later time and, once cleared, never runs again, whatever scheduleCue, clear
\* and fade calls on its or another channel are made in between.
C35_RampsTerminate ==
  /\ \A n \in 1..MaxFades : [](Running(n) => <>(~Running(n)))
  /\ [][\A n \in 1..MaxFades : (n <= fadeCount /\ ~Running(n)) => ~Running(n)']_vars
  /\ [][emitted'.timer # 0 => Running(emitted'.timer)]_vars
\* one fade has been made, its timer has gone and clear() has removed the
\* LayerStates
C35_Witness ==
  /\ fadeCount = 1
  /\ intervals = {}
  /\ \A c \in Channels : layerStates[c] = NoState
  /\ cleared = {}
  /\ emitted = NoEvent

\* the step is a run of the timer callback of transition t
TimerFires(t) == Ready(t) /\ transitionCallback(t)

\* C36: a scheduleTransition call changes nothing of the transport and
\* nothing of the scheduler; the timer callback sets the tempo to the
\* adjustedTempo of its transition and changes neither currentTick, nor the
\* transport's properties, nor any LayerState or ramp.
C36_CoordinatorSetsTempoOnly ==
  /\ [][nextId' = nextId + 1 =>
         UNCHANGED <<transport, bpm, currentTick, layerStates, heap, intervals>>]_vars
  /\ [][\A t \in timeouts :
          TimerFires(t) =>
            /\ bpm' = t.adjustedTempo
            /\ UNCHANGED <<transport, currentTick, layerStates, heap, intervals>>]_vars
\* a cue is active on channel 0, the transport stands at tick 480, and the
\* only transition, requested off the bar line, has resolved and set tempo 100
C36_Witness ==
  /\ layerStates[0] # NoState
  /\ currentTick = 480
  /\ nextId = 2 /\ calls[1] = 1 /\ timeouts = {}
  /\ bpm = 100 /\ seenTempo[1] = 100

\* C37: a step that changes the tick or the tempo and is neither a
\* scheduleTransition call nor a timer callback, that is an advance or a
\* setTempo call, leaves every waiting timer as it is; a waiting timer keeps
\* the delay computed at its call and its closure until it fires, and its
\* remaining time changes only by time passing.
C37_DelayFixedAtCall ==
  /\ [][(/\ calls' = calls
         /\ nextId' = nextId
         /\ (currentTick' # currentTick \/ bpm' # bpm)) =>
           timeouts' = timeouts]_vars
  /\ [][\A t \in timeouts :
          \/ t \in timeouts'
          \/ TimerFires(t)
          \/ /\ UNCHANGED <<transport, bpm, currentTick>>
             /\ \E u \in timeouts' :
                  /\ u.id = t.id
                  /\ u.after < t.after
                  /\ [u EXCEPT !.after = t.after] = t]_vars
\* a transition requested at tick 480 is waiting its full 1500 ms, while the
\* transport has been advanced to tick 960 and the tempo set to 0
C37_Witness ==
  /\ currentTick = 960
  /\ bpm = 0
  /\ \E t \in timeouts : t.delayTicks = 1440 /\ t.delayMs = Num(1500) /\ t.after = 1500

\* C38 as stated: no step removes a waiting timer of the hook except its own
\* firing; a timer fires only when no waiting timer has less time left, its
\* onResolved runs then, and after the callback, onResolved included, the
\* transport's tempo is the adjustedTempo of the transition that fired, so
\* in the end that of the one that fired last.
C38_PendingTransitionsAllResolve ==
  /\ [][\A t \in timeouts : t \in timeouts' \/ HookFires(t)]_vars
  /\ [][\A t \in timeouts :
          HookFires(t) =>
            /\ calls'[t.id] = calls[t.id] + 1
            /\ \A u \in timeouts : u.after >= t.after
            /\ bpm' = t.adjustedTempo]_vars

\* another value for a cue's entryPoints
OtherEntryPoints == <<0, 480>>

=============================================================================
